---- MODULE Spec2Model ----
(***************************************************************************)
(* aeramu/apihelper: classified errors (package exception) and the JSON    *)
(* response envelope (package httphelper).                                 *)
(*                                                                         *)
(* An error value is the chain of its Unwrap() links, outermost first: a   *)
(* sequence of nodes.  The nil error is the empty chain.  A node of kind   *)
(* "exception" is a *exception (exception.go); a node of kind "foreign" is *)
(* any error of another package (errors.New, fmt.Errorf("...%w")), which   *)
(* has Error() and possibly Unwrap() but no Code()/Message()/HTTPStatus(). *)
(* Texts are Go strings holding valid UTF-8.                               *)
(***************************************************************************)
EXTENDS Integers, Sequences, FiniteSets, TLC

VARIABLES
    defaultOptions,   \* exception.defaultOptions (option.go:11)
    defaultConfig,    \* httphelper.defaultConfig (config.go:21)
    err,              \* the error value the server code holds
    pc,               \* position of the exchange: idle, written, decoded
    handler,          \* the handler that served the request: OK, Error, raw
    payload,          \* the data the handler gave to OK
    w,                \* the http.ResponseWriter: status line and body
    result,           \* the client's httphelper.Response
    decodeErr,        \* what json.Unmarshal returned to the client (TRUE: an error)
    ret,              \* the value returned by the last method call
    base,             \* an error the caller keeps in hand while wrapping it
    built,            \* history: the call that constructed err, with its arguments
    setOptions,       \* history: the arguments of the last SetDefaultOptions call
    configured,       \* history: per field, the last value given to Configure
    configurers,      \* the goroutines that run Configure: position and locals
    encoder           \* the goroutine that runs Error(w, err): position and locals

vars ==
    <<defaultOptions, defaultConfig, err, pc, handler, payload, w, result,
      decodeErr, ret, base, built, setOptions, configured, configurers,
      encoder>>

(***************************************************************************)
(* Bounds of the model.                                                    *)
(***************************************************************************)
\* longest option list given to New and to Configure
MaxOpts == 3

(***************************************************************************)
(* package exception: code.go                                              *)
(***************************************************************************)
CodeInternal == "INTERNAL"
CodeUnavailable == "UNAVAILABLE"
CodeDeadlineExceeded == "DEADLINE_EXCEEDED"
CodeThirdParty == "THIRD_PARTY"
CodeInvalidRequest == "INVALID_REQUEST"
CodeValidationFailed == "VALIDATION_FAILED"
CodeUnauthenticated == "UNAUTHENTICATED"
CodePermissionDenied == "PERMISSION_DENIED"
CodeNotFound == "NOT_FOUND"
CodeAlreadyExists == "ALREADY_EXISTS"
CodeRaceCondition == "RACE_CONDITION"
CodeResourceExhausted == "RESOURCE_EXHAUSTED"
CodeSoftError == "SOFT_ERROR"

\* the closed enumeration of status classes
StatusClasses ==
    { CodeInternal, CodeUnavailable, CodeDeadlineExceeded, CodeThirdParty,
      CodeInvalidRequest, CodeValidationFailed, CodeUnauthenticated,
      CodePermissionDenied, CodeNotFound, CodeAlreadyExists,
      CodeRaceCondition, CodeResourceExhausted, CodeSoftError }

(***************************************************************************)
(* Error values.                                                           *)
(***************************************************************************)
Nil == << >>

\* the zero *exception: &exception{} (exception.go:7-13); its cause is the
\* rest of the chain
exception(s, status, code, message) ==
    [kind |-> "exception", s |-> s, status |-> status, code |-> code,
     message |-> message]

\* an error of another package with the given text
foreign(text) ==
    [kind |-> "foreign", s |-> text, status |-> "", code |-> "", message |-> ""]

\* errors.New(text)
errorsNew(text) == << foreign(text) >>

\* fmt.Errorf(text + ": %w", cause): a foreign wrapper around cause
errorfWrap(text, cause) == << foreign(text \o ": " \o cause[1].s) >> \o cause

\* a slip of Error(): the message is returned instead of the rendered text
ExceptionErrorIsMessage(e) == e[1].message

\* (e *exception) Error(), and the Error() of a foreign error
ExceptionError(e) == e[1].s

\* a slip of Code(): the status class is returned as the code
ExceptionCodeIsStatus(e) == e[1].status

\* (e *exception) Code()
ExceptionCode(e) == e[1].code

\* (e *exception) Message()
ExceptionMessage(e) == e[1].message

\* a slip of Unwrap(): the cause is not handed out
UnwrapNothing(e) == Nil

\* (e *exception) Unwrap()
Unwrap(e) == Tail(e)

(***************************************************************************)
(* exception.go: the transport mappings of a classified error.             *)
(***************************************************************************)
\* a slip of the table: SOFT_ERROR falls through to the default
HTTPStatusNoSoft(e) ==
    LET st == e[1].status IN
    CASE st = CodeInternal -> 500
      [] st = CodeInvalidRequest -> 400
      [] st = CodeValidationFailed -> 422
      [] st = CodeNotFound -> 404
      [] st \in {CodeAlreadyExists, CodeRaceCondition} -> 409
      [] st = CodeUnauthenticated -> 401
      [] st = CodePermissionDenied -> 403
      [] st = CodeResourceExhausted -> 429
      [] st = CodeUnavailable -> 503
      [] st = CodeDeadlineExceeded -> 504
      [] OTHER -> 500

\* (e *exception) HTTPStatus()
HTTPStatus(e) ==
    LET st == e[1].status IN
    CASE st = CodeInternal -> 500
      [] st = CodeInvalidRequest -> 400
      [] st = CodeValidationFailed -> 422
      [] st = CodeNotFound -> 404
      [] st \in {CodeAlreadyExists, CodeRaceCondition} -> 409
      [] st = CodeUnauthenticated -> 401
      [] st = CodePermissionDenied -> 403
      [] st = CodeResourceExhausted -> 429
      [] st = CodeUnavailable -> 503
      [] st = CodeDeadlineExceeded -> 504
      [] st = CodeSoftError -> 200
      [] OTHER -> 500

\* (e *exception) GRPCStatus()
GRPCStatus(e) ==
    LET st == e[1].status IN
    CASE st = CodeInternal -> "INTERNAL"
      [] st \in {CodeInvalidRequest, CodeValidationFailed} -> "INVALID_ARGUMENT"
      [] st = CodeNotFound -> "NOT_FOUND"
      [] st \in {CodeAlreadyExists, CodeRaceCondition} -> "ALREADY_EXISTS"
      [] st = CodeUnauthenticated -> "UNAUTHENTICATED"
      [] st = CodePermissionDenied -> "PERMISSION_DENIED"
      [] st = CodeResourceExhausted -> "RESOURCE_EXHAUSTED"
      [] st = CodeUnavailable -> "UNAVAILABLE"
      [] st = CodeDeadlineExceeded -> "DEADLINE_EXCEEDED"
      [] st = CodeSoftError -> "OK"
      [] OTHER -> "UNKNOWN"

(***************************************************************************)
(* option.go: the option pipeline.  An ErrorOption is the closure's name   *)
(* and its captured argument; the *exception under construction is the     *)
(* record of its fields, error being the cause chain (Nil: no cause).      *)
(***************************************************************************)
WithError(cause) == [opt |-> "WithError", str |-> "", cause |-> cause]
WithStatus(status) == [opt |-> "WithStatus", str |-> status, cause |-> Nil]
WithCode(code) == [opt |-> "WithCode", str |-> code, cause |-> Nil]
WithMessage(message) == [opt |-> "WithMessage", str |-> message, cause |-> Nil]

\* a slip of WithError: a nil cause is stored like any other, which
\* removes the cause set before
ApplyOptionNilClears(o, e) ==
    CASE o.opt = "WithError" -> [e EXCEPT !.error = o.cause]
      [] o.opt = "WithStatus" -> [e EXCEPT !.status = o.str]
      [] o.opt = "WithCode" -> [e EXCEPT !.code = o.str]
      [] o.opt = "WithMessage" -> [e EXCEPT !.message = o.str]

\* opt(e): the body of the closure each With... returns
ApplyOption(o, e) ==
    CASE o.opt = "WithError" ->
            IF o.cause = Nil THEN e ELSE [e EXCEPT !.error = o.cause]
      [] o.opt = "WithStatus" -> [e EXCEPT !.status = o.str]
      [] o.opt = "WithCode" -> [e EXCEPT !.code = o.str]
      [] o.opt = "WithMessage" -> [e EXCEPT !.message = o.str]

\* for _, opt := range opts { opt(e) }
RECURSIVE ApplyOptions(_, _)
ApplyOptions(opts, e) ==
    IF opts = << >> THEN e
    ELSE ApplyOptions(Tail(opts), ApplyOption(Head(opts), e))

\* var defaultOptions = []ErrorOption{WithStatus(CodeInternal), WithCode(CodeInternal)}
builtinOptions == << WithStatus(CodeInternal), WithCode(CodeInternal) >>

\* a slip of SetDefaultOptions: the options are appended to the list
SetDefaultOptionsAppends(old, opts) == old \o opts

\* SetDefaultOptions(opts...): the value stored into defaultOptions, old
\* being the list it replaces
SetDefaultOptions(old, opts) == opts

\* a slip of New: the default options are applied after the instance
\* options
NewDefaultsLast(defs, text, opts) ==
    LET e0 == [s |-> text, error |-> Nil, status |-> "", code |-> "",
               message |-> ""]
        e1 == ApplyOptions(opts, e0)
        e2 == ApplyOptions(defs, e1)
        s2 == IF e2.error # Nil
              THEN e2.s \o ": " \o ExceptionError(e2.error)
              ELSE e2.s
    IN << exception(s2, e2.status, e2.code, e2.message) >> \o e2.error

\* New(text, opts...) under the default options defs
New(defs, text, opts) ==
    LET e0 == [s |-> text, error |-> Nil, status |-> "", code |-> "",
               message |-> ""]
        e1 == ApplyOptions(defs, e0)
        e2 == ApplyOptions(opts, e1)
        s2 == IF e2.error # Nil
              THEN e2.s \o ": " \o ExceptionError(e2.error)
              ELSE e2.s
    IN << exception(s2, e2.status, e2.code, e2.message) >> \o e2.error

\* deprecated.go: NewCustomError(status, code, message, err); the field s
\* is left at its zero value
NewCustomError(status, code, message, cause) ==
    LET c == IF cause = Nil THEN errorsNew(message) ELSE cause
    IN << exception("", status, code, message) >> \o c

\* deprecated.go: the constructors that pin the status class
InvalidRequest(code, message, cause) ==
    NewCustomError(CodeInvalidRequest, code, message, cause)
ValidationFailed(code, message, cause) ==
    NewCustomError(CodeValidationFailed, code, message, cause)
PermissionDenied(code, message, cause) ==
    NewCustomError(CodePermissionDenied, code, message, cause)
NotFound(code, message, cause) ==
    NewCustomError(CodeNotFound, code, message, cause)
ThirdParty(code, message, cause) ==
    NewCustomError(CodeThirdParty, code, message, cause)
AlreadyExists(code, message, cause) ==
    NewCustomError(CodeAlreadyExists, code, message, cause)
SoftError(code, message, cause) ==
    NewCustomError(CodeSoftError, code, message, cause)
RaceCondition(code, message, cause) ==
    NewCustomError(CodeRaceCondition, code, message, cause)
ResourceExhausted(code, message, cause) ==
    NewCustomError(CodeResourceExhausted, code, message, cause)
Unauthenticated(code, message, cause) ==
    NewCustomError(CodeUnauthenticated, code, message, cause)
Internal(code, message, cause) ==
    NewCustomError(CodeInternal, code, message, cause)
Unavailable(code, message, cause) ==
    NewCustomError(CodeUnavailable, code, message, cause)
DeadlineExceeded(code, message, cause) ==
    NewCustomError(CodeDeadlineExceeded, code, message, cause)

(***************************************************************************)
(* The capability contracts and their extraction (errors.As).              *)
(***************************************************************************)
\* the dynamic type of a node has the methods of the contract: HTTPError
\* (Error, HTTPStatus, Message, Code) or ErrorCode (Error, Code).  A
\* *exception has them all; a *httphelper.Response has Error, Code and
\* Message but no HTTPStatus.
Implements(node, contract) ==
    \/ contract \in {"HTTPError", "ErrorCode"} /\ node.kind = "exception"
    \/ contract = "ErrorCode" /\ node.kind = "response"

\* a slip of the chain walk: the innermost error that satisfies the
\* contract is taken
RECURSIVE errorsAsInnermost(_, _)
errorsAsInnermost(e, contract) ==
    IF e = Nil THEN Nil
    ELSE LET inner == errorsAsInnermost(Unwrap(e), contract)
         IN IF inner # Nil THEN inner
            ELSE IF Implements(e[1], contract) THEN e
            ELSE Nil

\* errors.As(err, &target): the first error of the chain, walking from err
\* through Unwrap(), that the target's contract accepts; Nil when none does
RECURSIVE errorsAs(_, _)
errorsAs(e, contract) ==
    IF e = Nil THEN Nil
    ELSE IF Implements(e[1], contract) THEN e
    ELSE errorsAs(Unwrap(e), contract)

\* errors.Is(err, target) for errors that have no Is method: err, or an
\* error reached from it through Unwrap(), is the target.  An error value
\* is identified with its chain, so == on two errors is equality of chains.
RECURSIVE errorsIs(_, _)
errorsIs(e, target) ==
    IF e = Nil THEN FALSE
    ELSE IF e = target THEN TRUE
    ELSE errorsIs(Unwrap(e), target)

\* exception.AsErrorCode(err)
AsErrorCode(e) ==
    IF e = Nil THEN [v |-> Nil, ok |-> FALSE]
    ELSE LET errorCode == errorsAs(e, "ErrorCode")
         IN IF errorCode # Nil THEN [v |-> errorCode, ok |-> TRUE]
            ELSE [v |-> Nil, ok |-> FALSE]

\* httphelper.AsHTTPError(err)
AsHTTPError(e) ==
    IF e = Nil THEN [v |-> Nil, ok |-> FALSE]
    ELSE LET httpErr == errorsAs(e, "HTTPError")
         IN IF httpErr # Nil THEN [v |-> httpErr, ok |-> TRUE]
            ELSE [v |-> Nil, ok |-> FALSE]


(***************************************************************************)
(* package httphelper: config.go                                           *)
(***************************************************************************)
INTERNAL_SERVER_ERROR == "INTERNAL_SERVER_ERROR"
INTERNAL_SERVER_MESSAGE == "An internal server error occurred"

\* var defaultConfig = config{...}
initialConfig ==
    [defaultErrorCode |-> INTERNAL_SERVER_ERROR,
     defaultErrorMessage |-> INTERNAL_SERVER_MESSAGE,
     includeDetails |-> TRUE]

WithDefaultErrorCode(code) ==
    [opt |-> "WithDefaultErrorCode", str |-> code, bool |-> FALSE]
WithDefaultErrorMessage(msg) ==
    [opt |-> "WithDefaultErrorMessage", str |-> msg, bool |-> FALSE]
WithIncludeDetails(include) ==
    [opt |-> "WithIncludeDetails", str |-> "", bool |-> include]

\* a slip of the options: WithDefaultErrorMessage writes the code field
ApplyConfigOptionWrongField(o, c) ==
    CASE o.opt = "WithDefaultErrorCode" -> [c EXCEPT !.defaultErrorCode = o.str]
      [] o.opt = "WithDefaultErrorMessage" ->
            [c EXCEPT !.defaultErrorCode = o.str]
      [] o.opt = "WithIncludeDetails" -> [c EXCEPT !.includeDetails = o.bool]

\* opt(&cfg): the body of the closure each With... returns
ApplyConfigOption(o, c) ==
    CASE o.opt = "WithDefaultErrorCode" -> [c EXCEPT !.defaultErrorCode = o.str]
      [] o.opt = "WithDefaultErrorMessage" ->
            [c EXCEPT !.defaultErrorMessage = o.str]
      [] o.opt = "WithIncludeDetails" -> [c EXCEPT !.includeDetails = o.bool]

\* a slip of Configure: the options are applied to the initial
\* configuration, not to the current one
RECURSIVE ConfigureFromInitial(_, _)
ConfigureFromInitial(cfg, opts) ==
    IF opts = << >> THEN initialConfig
    ELSE ApplyConfigOption(opts[Len(opts)],
             ConfigureFromInitial(cfg, SubSeq(opts, 1, Len(opts) - 1)))

\* Configure(opts...): the value stored back into defaultConfig
RECURSIVE Configure(_, _)
Configure(cfg, opts) ==
    IF opts = << >> THEN cfg
    ELSE Configure(ApplyConfigOption(Head(opts), cfg), Tail(opts))

(***************************************************************************)
(* response.go: the envelope.  A value of type any (Data, Details) is nil  *)
(* (t = "null") or a decoded JSON value; a *ErrorInfo is nil or points to  *)
(* a struct.                                                               *)
(***************************************************************************)
UNKNOWN_ERROR == "UNKNOWN_ERROR"
UNKNOWN_DETAIL ==
    "Request failed without error details. This may be due to malformed JSON, invalid JSON format, or empty response body"

\* the nil interface value of type any
NilAny == [t |-> "null", Foo |-> "", Bar |-> ""]
\* the struct Data{Foo, Bar} of the tests, and its decoded form
DataObj(foo, bar) == [t |-> "obj", Foo |-> foo, Bar |-> bar]
\* a number held in an any
NumAny == [t |-> "num", Foo |-> "", Bar |-> ""]
\* an object whose member Foo is a string and whose member Bar is a number
ObjBadBar(foo) == [t |-> "objBadBar", Foo |-> foo, Bar |-> ""]
\* a string whose text is the JSON object {"Foo":foo,"Bar":bar}
StrObj(foo, bar) == [t |-> "strObj", Foo |-> foo, Bar |-> bar]
\* a string whose text is not JSON
StrText == [t |-> "strText", Foo |-> "", Bar |-> ""]
\* text that is not JSON
MalformedText == [t |-> "malformed", Foo |-> "", Bar |-> ""]

\* (*ErrorInfo)(nil)
NilErrorInfo ==
    [nil |-> TRUE, Code |-> "", Message |-> "", Detail |-> "", Details |-> NilAny]
\* &ErrorInfo{Code: code, Message: message, Detail: detail}
ErrorInfo(code, message, detail) ==
    [nil |-> FALSE, Code |-> code, Message |-> message, Detail |-> detail,
     Details |-> NilAny]

\* Response{Status, Success, Data, ErrorInfo}
Response(status, success, data, errorInfo) ==
    [Status |-> status, Success |-> success, Data |-> data,
     ErrorInfo |-> errorInfo]

\* var result httphelper.Response
ZeroResponse == Response(0, FALSE, NilAny, NilErrorInfo)

\* (r *Response) IsSuccess()
IsSuccess(r) == r.Success

\* a slip of getError: the sentinel is substituted on an empty code alone
getErrorCodeOnly(r) ==
    IF IsSuccess(r) THEN NilErrorInfo
    ELSE IF r.ErrorInfo.nil \/ r.ErrorInfo.Code = ""
    THEN ErrorInfo(UNKNOWN_ERROR, "", UNKNOWN_DETAIL)
    ELSE r.ErrorInfo

\* (r *Response) getError()
getError(r) ==
    IF IsSuccess(r) THEN NilErrorInfo
    ELSE IF r.ErrorInfo.nil \/ (r.ErrorInfo.Code = "" /\ r.ErrorInfo.Detail = "")
    THEN ErrorInfo(UNKNOWN_ERROR, "", UNKNOWN_DETAIL)
    ELSE r.ErrorInfo

\* (r *Response) Error()
ResponseError(r) ==
    LET e == getError(r) IN IF e.nil THEN "" ELSE e.Detail

\* (r *Response) Code()
Code(r) ==
    LET e == getError(r) IN IF e.nil THEN "" ELSE e.Code

\* (r *Response) Message()
Message(r) ==
    LET e == getError(r) IN IF e.nil THEN "" ELSE e.Message

\* the error Err() returns for a failure Response, as a link of an error
\* chain: the *Response, which answers Error(), Code() and Message()
\* through getError and has no Unwrap()
responseError(r) ==
    << [kind |-> "response", s |-> ResponseError(r), status |-> "",
        code |-> Code(r), message |-> Message(r)] >>

\* a slip of Err(): the error block decides, not the success flag
ErrByErrorInfo(r) ==
    IF r.ErrorInfo.nil THEN [nil |-> TRUE, r |-> r]
    ELSE [nil |-> FALSE, r |-> r]

\* a slip of Err: the block it stores keeps the code only
ErrStoresCodeOnly(r) ==
    IF IsSuccess(r) THEN [nil |-> TRUE, r |-> r]
    ELSE LET e == getError(r) IN
         IF e.nil THEN [nil |-> TRUE, r |-> r]
         ELSE [nil |-> FALSE,
               r |-> [r EXCEPT !.ErrorInfo = ErrorInfo(e.Code, "", "")]]

\* (r *Response) Err(): whether the returned error is nil, and the receiver
\* afterwards (the returned error, when not nil, is the receiver itself)
Err(r) ==
    IF IsSuccess(r) THEN [nil |-> TRUE, r |-> r]
    ELSE LET e == getError(r) IN
         IF e.nil THEN [nil |-> TRUE, r |-> r]
         ELSE [nil |-> FALSE, r |-> [r EXCEPT !.ErrorInfo = e]]


(***************************************************************************)
(* The wire body.  encoding/json is used as a primitive by OK, Error and   *)
(* the client; a body is modelled by its JSON structure: no bytes at all,  *)
(* text that is not JSON, the JSON null, a JSON value that is no object,   *)
(* or an object whose members of interest are status, success, data and    *)
(* error (any other member is ignored by the decoder).  A member is        *)
(* absent, null, or a value of a JSON type.                                *)
(***************************************************************************)
JAbsentNum == [t |-> "absent", n |-> 0]
JNum(n) == [t |-> "num", n |-> n]
JStrForNum == [t |-> "str", n |-> 0]

JAbsentBool == [t |-> "absent", b |-> FALSE]
JBool(b) == [t |-> "bool", b |-> b]
JStrForBool == [t |-> "str", b |-> FALSE]

JAbsentStr == [t |-> "absent", s |-> ""]
JStr(s) == [t |-> "str", s |-> s]
JNumForStr == [t |-> "num", s |-> ""]

JAbsentAny == [t |-> "absent", Foo |-> "", Bar |-> ""]

JAbsentError ==
    [t |-> "absent", code |-> JAbsentStr, message |-> JAbsentStr,
     detail |-> JAbsentStr, details |-> JAbsentAny]
JNullError == [JAbsentError EXCEPT !.t = "null"]
JStrForError == [JAbsentError EXCEPT !.t = "str"]
JErrorObj(code, message, detail, details) ==
    [t |-> "obj", code |-> code, message |-> message, detail |-> detail,
     details |-> details]

JObject(status, success, data, error) ==
    [kind |-> "object", status |-> status, success |-> success,
     data |-> data, error |-> error]
\* a body that is no object
JRaw(kind) ==
    [kind |-> kind, status |-> JAbsentNum, success |-> JAbsentBool,
     data |-> JAbsentAny, error |-> JAbsentError]

\* a string member tagged omitempty
OmitEmptyStr(s) == IF s = "" THEN JAbsentStr ELSE JStr(s)
\* an any member tagged omitempty
OmitEmptyAny(v) == IF v.t = "null" THEN JAbsentAny ELSE v

\* a slip of the struct tags: detail and details without omitempty, so an
\* empty Detail is written as "detail":""
MarshalNoOmitEmpty(r) ==
    JObject(JNum(r.Status), JBool(r.Success), r.Data,
            IF r.ErrorInfo.nil THEN JAbsentError
            ELSE JErrorObj(JStr(r.ErrorInfo.Code), JStr(r.ErrorInfo.Message),
                           JStr(r.ErrorInfo.Detail), r.ErrorInfo.Details))

\* json.NewEncoder(w).Encode(Response{...}) with the struct tags of
\* Response and ErrorInfo
Marshal(r) ==
    JObject(JNum(r.Status), JBool(r.Success), r.Data,
            IF r.ErrorInfo.nil THEN JAbsentError
            ELSE JErrorObj(JStr(r.ErrorInfo.Code), JStr(r.ErrorInfo.Message),
                           OmitEmptyStr(r.ErrorInfo.Detail),
                           OmitEmptyAny(r.ErrorInfo.Details)))

\* decoding one member into a string field: a string is stored, an absent
\* or null member leaves the field, any other type is skipped as an error
DecodeStr(j, old) == IF j.t = "str" THEN j.s ELSE old

\* decoding the member error into the field ErrorInfo *ErrorInfo
DecodeErrorInfo(j, old) ==
    LET p == IF old.nil THEN ErrorInfo("", "", "") ELSE old IN
    CASE j.t = "absent" -> old
      [] j.t = "null" -> NilErrorInfo
      [] j.t = "str" -> p
      [] j.t = "obj" ->
            [nil |-> FALSE,
             Code |-> DecodeStr(j.code, p.Code),
             Message |-> DecodeStr(j.message, p.Message),
             Detail |-> DecodeStr(j.detail, p.Detail),
             Details |-> IF j.details.t = "absent" THEN p.Details
                         ELSE j.details]

\* the members json.Unmarshal reports as an UnmarshalTypeError
TypeErrors(body) ==
    \/ body.status.t = "str"
    \/ body.success.t = "str"
    \/ body.error.t = "str"
    \/ /\ body.error.t = "obj"
       /\ "num" \in {body.error.code.t, body.error.message.t, body.error.detail.t}

\* json.Unmarshal(body, &r): the Response afterwards and whether an error
\* is returned.  Text that is not JSON is rejected before anything is
\* stored; a member of the wrong type is skipped and the others are stored.
Unmarshal(body, r) ==
    CASE body.kind \in {"empty", "malformed", "nonobject"} ->
            [r |-> r, err |-> TRUE]
      [] body.kind = "null" -> [r |-> r, err |-> FALSE]
      [] body.kind = "object" ->
            [r |-> Response(
                      IF body.status.t = "num" THEN body.status.n ELSE r.Status,
                      IF body.success.t = "bool" THEN body.success.b
                      ELSE r.Success,
                      IF body.data.t = "absent" THEN r.Data ELSE body.data,
                      DecodeErrorInfo(body.error, r.ErrorInfo)),
             err |-> TypeErrors(body)]

(***************************************************************************)
(* ReadData[T](r) for T the struct Data{Foo, Bar string} of the tests.     *)
(***************************************************************************)
\* var data Data
ZeroData == [Foo |-> "", Bar |-> ""]

\* the switch on r.Data: the text of a string is taken as it is, any other
\* value is encoded with json.Marshal
jsonBytes(v) ==
    CASE v.t = "strObj" -> DataObj(v.Foo, v.Bar)
      [] v.t = "strText" -> MalformedText
      [] OTHER -> v

\* json.Unmarshal(jsonBytes, &data): the struct afterwards and whether an
\* error is returned; a member of the wrong type is skipped and the other
\* members are stored
UnmarshalData(j, data) ==
    CASE j.t = "obj" -> [v |-> [Foo |-> j.Foo, Bar |-> j.Bar], err |-> FALSE]
      [] j.t = "objBadBar" -> [v |-> [data EXCEPT !.Foo = j.Foo], err |-> TRUE]
      [] j.t = "null" -> [v |-> data, err |-> FALSE]
      [] OTHER -> [v |-> data, err |-> TRUE]

\* a slip of ReadData: the response's error is not looked at
ReadDataNoErrCheck(r) ==
    IF r.Data.t = "null"
    THEN [data |-> ZeroData, err |-> "response data is nil", r |-> r]
    ELSE LET u == UnmarshalData(jsonBytes(r.Data), ZeroData)
         IN IF u.err
            THEN [data |-> u.v, err |-> "failed to unmarshal response data",
                  r |-> r]
            ELSE [data |-> u.v, err |-> "nil", r |-> r]

\* a slip of ReadData: nil data is handed to the decoder like any other
ReadDataNoNilCheck(r) ==
    LET e == Err(r) IN
    IF ~e.nil THEN [data |-> ZeroData, err |-> "r.Err()", r |-> e.r]
    ELSE LET u == UnmarshalData(jsonBytes(r.Data), ZeroData)
         IN IF u.err
            THEN [data |-> u.v, err |-> "failed to unmarshal response data",
                  r |-> r]
            ELSE [data |-> u.v, err |-> "nil", r |-> r]

\* ReadData[Data](r): the value returned, the error returned ("nil", the
\* error r.Err() returned, or the text of a new error), and the Response
\* that error points to
ReadData(r) ==
    LET e == Err(r) IN
    IF ~e.nil THEN [data |-> ZeroData, err |-> "r.Err()", r |-> e.r]
    ELSE IF r.Data.t = "null"
    THEN [data |-> ZeroData, err |-> "response data is nil", r |-> r]
    ELSE LET u == UnmarshalData(jsonBytes(r.Data), ZeroData)
         IN IF u.err
            THEN [data |-> u.v, err |-> "failed to unmarshal response data",
                  r |-> r]
            ELSE [data |-> u.v, err |-> "nil", r |-> r]

(***************************************************************************)
(* The server side: OK and Error write the status line and the body.       *)
(***************************************************************************)
\* the http.ResponseWriter after a handler has run
Writer(code, body) == [code |-> code, body |-> body]

\* OK(w, data): no WriteHeader, so the first write sends status 200
OK(data) == Writer(200, Marshal(Response(200, TRUE, data, NilErrorInfo)))

\* a slip of Error: the envelope's status field is always 500, whatever
\* status is written to the transport
ErrorStatus500Body(cfg, e) ==
    LET h == AsHTTPError(e)
        errInfo ==
            IF h.ok
            THEN ErrorInfo(ExceptionCode(h.v), ExceptionMessage(h.v),
                           IF cfg.includeDetails THEN ExceptionError(h.v)
                           ELSE "")
            ELSE ErrorInfo(cfg.defaultErrorCode, cfg.defaultErrorMessage,
                           IF cfg.includeDetails THEN ExceptionError(e)
                           ELSE "")
        httpStatus == IF h.ok THEN HTTPStatus(h.v) ELSE 500
    IN Writer(httpStatus, Marshal(Response(500, FALSE, NilAny, errInfo)))

\* a slip of Error: a foreign error gets the built-in default code and
\* message, whatever Configure has set
ErrorBuiltinDefaults(cfg, e) ==
    LET h == AsHTTPError(e)
        errInfo ==
            IF h.ok
            THEN ErrorInfo(ExceptionCode(h.v), ExceptionMessage(h.v),
                           IF cfg.includeDetails THEN ExceptionError(h.v)
                           ELSE "")
            ELSE ErrorInfo(INTERNAL_SERVER_ERROR, INTERNAL_SERVER_MESSAGE,
                           IF cfg.includeDetails THEN ExceptionError(e)
                           ELSE "")
        httpStatus == IF h.ok THEN HTTPStatus(h.v) ELSE 500
    IN Writer(httpStatus, Marshal(Response(httpStatus, FALSE, NilAny, errInfo)))

\* a slip of Error: the default message is taken from the default code
ErrorMessageIsCode(cfg, e) ==
    LET h == AsHTTPError(e)
        errInfo ==
            IF h.ok
            THEN ErrorInfo(ExceptionCode(h.v), ExceptionMessage(h.v),
                           IF cfg.includeDetails THEN ExceptionError(h.v)
                           ELSE "")
            ELSE ErrorInfo(cfg.defaultErrorCode, cfg.defaultErrorCode,
                           IF cfg.includeDetails THEN ExceptionError(e)
                           ELSE "")
        httpStatus == IF h.ok THEN HTTPStatus(h.v) ELSE 500
    IN Writer(httpStatus, Marshal(Response(httpStatus, FALSE, NilAny, errInfo)))

\* Error(w, err) under the configuration cfg, for a non-nil err
Error(cfg, e) ==
    LET h == AsHTTPError(e)
        errInfo ==
            IF h.ok
            THEN ErrorInfo(ExceptionCode(h.v), ExceptionMessage(h.v),
                           IF cfg.includeDetails THEN ExceptionError(h.v)
                           ELSE "")
            ELSE ErrorInfo(cfg.defaultErrorCode, cfg.defaultErrorMessage,
                           IF cfg.includeDetails THEN ExceptionError(e)
                           ELSE "")
        httpStatus == IF h.ok THEN HTTPStatus(h.v) ELSE 500
    IN Writer(httpStatus, Marshal(Response(httpStatus, FALSE, NilAny, errInfo)))


(***************************************************************************)
(* Inputs.                                                                 *)
(***************************************************************************)
\* all sequences over S of length at most n
RECURSIVE SeqsUpTo(_, _)
SeqsUpTo(S, n) ==
    IF n = 0 THEN { << >> }
    ELSE LET shorter == SeqsUpTo(S, n - 1)
         IN shorter \cup { Append(q, x) : q \in shorter, x \in S }

\* code.go:35: ErrorNotFound = newError(CodeNotFound, "data not found"),
\* built when the package is initialised, under the built-in defaults
ErrorNotFound ==
    New(builtinOptions, "data not found",
        << WithStatus(CodeNotFound), WithCode(CodeNotFound),
           WithMessage("data not found") >>)

\* the causes a server attaches: none, a foreign error, a classified error,
\* a foreign error wrapping a classified one
Causes ==
    { Nil, errorsNew("some error"), ErrorNotFound,
      errorfWrap("repo", ErrorNotFound) }

Texts == { "error", "" }
CodeInputs == { "USER_NOT_FOUND", "" }
MessageInputs == { "user missing" }
\* every status class, the empty status and a string that is no class
AllStatusInputs == StatusClasses \cup { "", "TEAPOT" }
\* the status strings the exchange is run with
StatusInputs == { CodeNotFound, CodeSoftError, CodeThirdParty, "" }

ErrorOptions(statuses) ==
    { WithStatus(s) : s \in statuses } \cup { WithCode(c) : c \in CodeInputs }
    \cup { WithMessage(m) : m \in MessageInputs }
    \cup { WithError(c) : c \in Causes }

\* the errors server code builds with New and NewCustomError, and the
\* foreign errors it receives from other packages
ServerErrors(defs) ==
    { New(defs, text, opts) :
        text \in Texts, opts \in SeqsUpTo(ErrorOptions(StatusInputs), MaxOpts) }
    \cup { NewCustomError(st, c, m, cause) :
             st \in StatusInputs, c \in CodeInputs, m \in MessageInputs,
             cause \in Causes }
    \cup { errorsNew("some error"), errorsNew(""),
           errorfWrap("repo", ErrorNotFound) }

ConfigOptions ==
    { WithDefaultErrorCode(c) : c \in { "TEST_ERROR", "" } }
    \cup { WithDefaultErrorMessage("TEST_MESSAGE") }
    \cup { WithIncludeDetails(b) : b \in BOOLEAN }

\* the payloads given to OK
Payloads ==
    { NilAny, DataObj("foo", "bar"), NumAny, StrObj("foo", "bar"), StrText }

\* the bodies a peer that does not use this package may send
ForeignBodies ==
    { JRaw(k) : k \in { "empty", "malformed", "null", "nonobject" } }
    \cup
    { JObject(st, su, d, e) :
        st \in { JAbsentNum, JNum(500), JStrForNum },
        su \in { JAbsentBool, JBool(TRUE), JBool(FALSE), JStrForBool },
        d \in { JAbsentAny, DataObj("foo", "bar"), ObjBadBar("foo") },
        e \in { JAbsentError, JNullError, JStrForError }
              \cup { JErrorObj(c, m, dt, JAbsentAny) :
                       c \in { JAbsentStr, JStr("E1"), JNumForStr },
                       m \in { JAbsentStr, JStr("m") },
                       dt \in { JAbsentStr, JStr("d") } } }

(***************************************************************************)
(* The exchange: a handler serves one request, the client decodes the      *)
(* body into a fresh Response and reads it (httphelper_test.go).           *)
(***************************************************************************)
NoRet == [fn |-> "", nil |-> FALSE, s |-> "", n |-> 0]
NoWriter == Writer(0, JRaw("empty"))
\* no error has been constructed
NoBuilt ==
    [fn |-> "", text |-> "", opts |-> << >>, defs |-> << >>, code |-> "",
     message |-> "", cause |-> Nil]

\* the goroutines that call Configure while requests are served
ConfigureGoroutines == { "c1", "c2" }
\* the fields of the config struct in the order of their declaration
Fields == << "defaultErrorCode", "defaultErrorMessage", "includeDetails" >>
\* the zero value of config: a local variable before anything is copied
\* into it
ZeroConfig ==
    [defaultErrorCode |-> "", defaultErrorMessage |-> "",
     includeDetails |-> FALSE]
\* a goroutine that has not called Configure: pc is its position, i the
\* field its copy has come to, opts its arguments, cfg its local variable;
\* loaded (what it copied from defaultConfig) and alone (no other Configure
\* ran during the call) are history
NoConfigure ==
    [pc |-> "idle", i |-> 0, opts |-> << >>, cfg |-> ZeroConfig,
     loaded |-> ZeroConfig, alone |-> TRUE]
\* the goroutine of a request before its handler calls Error: pc is its
\* position, e the error, cfg the fields of defaultConfig it has read;
\* before (defaultConfig when the call began) and alone (no Configure ran
\* during the call) are history
NoEncoder ==
    [pc |-> "idle", e |-> Nil, cfg |-> ZeroConfig, before |-> ZeroConfig,
     alone |-> TRUE]

\* the position of the last option of the list made by the constructor
\* name, 0 when the list has none
LastOf(opts, name) ==
    LET I == { i \in 1..Len(opts) : opts[i].opt = name }
    IN IF I = {} THEN 0 ELSE CHOOSE i \in I : \A j \in I : j <= i

Init ==
    /\ defaultOptions = builtinOptions
    /\ defaultConfig = initialConfig
    /\ err = Nil
    /\ pc = "idle"
    /\ handler = "none"
    /\ payload = NilAny
    /\ w = NoWriter
    /\ result = ZeroResponse
    /\ decodeErr = FALSE
    /\ ret = NoRet
    /\ base = Nil
    /\ built = NoBuilt
    /\ setOptions = builtinOptions
    /\ configured = initialConfig
    /\ configurers = [k \in ConfigureGoroutines |-> NoConfigure]
    /\ encoder = NoEncoder

\* httphelper.Configure(opts...)
CallConfigure ==
    /\ pc = "idle"
    /\ \E opts \in SeqsUpTo(ConfigOptions, MaxOpts) :
          /\ defaultConfig' = Configure(defaultConfig, opts)
          /\ configured' =
                LET c == LastOf(opts, "WithDefaultErrorCode")
                    m == LastOf(opts, "WithDefaultErrorMessage")
                    d == LastOf(opts, "WithIncludeDetails")
                IN [defaultErrorCode |->
                        IF c = 0 THEN configured.defaultErrorCode
                        ELSE opts[c].str,
                    defaultErrorMessage |->
                        IF m = 0 THEN configured.defaultErrorMessage
                        ELSE opts[m].str,
                    includeDetails |->
                        IF d = 0 THEN configured.includeDetails
                        ELSE opts[d].bool]
    /\ UNCHANGED <<configurers, encoder, base, built, setOptions, defaultOptions, err, pc, handler, payload, w, result, decodeErr, ret>>

\* a handler that calls httphelper.OK(w, data)
ServeOK ==
    /\ pc = "idle"
    /\ \E data \in Payloads :
          /\ payload' = data
          /\ w' = OK(data)
    /\ handler' = "OK"
    /\ pc' = "written"
    /\ UNCHANGED <<configurers, encoder, base, built, setOptions, configured, defaultOptions, defaultConfig, err, result, decodeErr, ret>>

\* a handler that builds or receives an error e and calls
\* httphelper.Error(w, e)
ServeError ==
    /\ pc = "idle"
    /\ \E e \in ServerErrors(defaultOptions) :
          /\ e # Nil
          /\ err' = e
          /\ w' = Error(defaultConfig, e)
    /\ handler' = "Error"
    /\ pc' = "written"
    /\ UNCHANGED <<configurers, encoder, base, built, setOptions, configured, defaultOptions, defaultConfig, payload, result, decodeErr, ret>>

\* a handler that writes a status line and a body of its own
ServeRaw ==
    /\ pc = "idle"
    /\ \E code \in { 200, 500 }, body \in ForeignBodies : w' = Writer(code, body)
    /\ handler' = "raw"
    /\ pc' = "written"
    /\ UNCHANGED <<configurers, encoder, base, built, setOptions, configured, defaultOptions, defaultConfig, err, payload, result, decodeErr,
                   ret>>

\* var result httphelper.Response; err := json.Unmarshal(body, &result)
ClientUnmarshal ==
    /\ pc = "written"
    /\ LET u == Unmarshal(w.body, ZeroResponse)
       IN /\ result' = u.r
          /\ decodeErr' = u.err
    /\ pc' = "decoded"
    /\ UNCHANGED <<configurers, encoder, base, built, setOptions, configured, defaultOptions, defaultConfig, err, handler, payload, w, ret>>

\* result.Err()
CallErr ==
    /\ pc = "decoded"
    /\ LET e == Err(result)
       IN /\ result' = e.r
          /\ ret' = [fn |-> "Err", nil |-> e.nil, s |-> "", n |-> 0]
    /\ UNCHANGED <<configurers, encoder, base, built, setOptions, configured, defaultOptions, defaultConfig, err, pc, handler, payload, w, decodeErr>>

\* result.Code()
CallCode ==
    /\ pc = "decoded"
    /\ ret' = [fn |-> "Code", nil |-> FALSE, s |-> Code(result), n |-> 0]
    /\ UNCHANGED <<configurers, encoder, base, built, setOptions, configured, defaultOptions, defaultConfig, err, pc, handler, payload, w, result,
                   decodeErr>>

\* result.Message()
CallMessage ==
    /\ pc = "decoded"
    /\ ret' = [fn |-> "Message", nil |-> FALSE, s |-> Message(result), n |-> 0]
    /\ UNCHANGED <<configurers, encoder, base, built, setOptions, configured, defaultOptions, defaultConfig, err, pc, handler, payload, w, result,
                   decodeErr>>

\* result.Error()
CallResponseError ==
    /\ pc = "decoded"
    /\ ret' = [fn |-> "Error", nil |-> FALSE, s |-> ResponseError(result),
               n |-> 0]
    /\ UNCHANGED <<configurers, encoder, base, built, setOptions, configured, defaultOptions, defaultConfig, err, pc, handler, payload, w, result,
                   decodeErr>>

\* httphelper.ReadData[Data](result)
CallReadData ==
    /\ pc = "decoded"
    /\ LET d == ReadData(result)
       IN ret' = [fn |-> "ReadData", nil |-> d.err = "nil", s |-> d.err,
                  n |-> 0, data |-> d.data, code |-> Code(d.r)]
    /\ UNCHANGED <<configurers, encoder, base, built, setOptions, configured, defaultOptions,
                   defaultConfig, err, pc, handler, payload, w, result,
                   decodeErr>>

\* the test case ends: the next one starts with fresh values
Finish ==
    /\ pc = "decoded"
    /\ err' = Nil
    /\ pc' = "idle"
    /\ handler' = "none"
    /\ payload' = NilAny
    /\ w' = NoWriter
    /\ result' = ZeroResponse
    /\ decodeErr' = FALSE
    /\ ret' = NoRet
    /\ UNCHANGED <<configurers, encoder, base, built, setOptions, configured, defaultOptions, defaultConfig>>

Next ==
    \/ CallConfigure
    \/ ServeOK
    \/ ServeError
    \/ ServeRaw
    \/ ClientUnmarshal
    \/ CallErr
    \/ CallCode
    \/ CallMessage
    \/ CallResponseError
    \/ CallReadData
    \/ Finish

Spec == Init /\ [][Next]_vars


(***************************************************************************)
(* Package exception on its own: server code builds classified errors and  *)
(* asks them for their transport mappings.                                 *)
(***************************************************************************)
\* err := exception.New(text, opts...)
ExcNew ==
    /\ err = Nil
    /\ \E text \in Texts,
          opts \in SeqsUpTo(ErrorOptions(AllStatusInputs), MaxOpts) :
          err' = New(defaultOptions, text, opts)
    /\ ret' = NoRet
    /\ UNCHANGED <<configurers, encoder, base, built, setOptions, configured, defaultOptions, defaultConfig, pc, handler, payload, w, result,
                   decodeErr>>

\* err := exception.NewCustomError(status, code, message, cause)
ExcNewCustomError ==
    /\ err = Nil
    /\ \E st \in AllStatusInputs, c \in CodeInputs, m \in MessageInputs,
          cause \in Causes :
          err' = NewCustomError(st, c, m, cause)
    /\ ret' = NoRet
    /\ UNCHANGED <<configurers, encoder, base, built, setOptions, configured, defaultOptions, defaultConfig, pc, handler, payload, w, result,
                   decodeErr>>

\* err.HTTPStatus()
ExcHTTPStatus ==
    /\ err # Nil
    /\ Implements(err[1], "HTTPError")
    /\ ret' = [fn |-> "HTTPStatus", nil |-> FALSE, s |-> "", n |-> HTTPStatus(err)]
    /\ UNCHANGED <<configurers, encoder, base, built, setOptions, configured, defaultOptions, defaultConfig, err, pc, handler, payload, w, result,
                   decodeErr>>

\* err.GRPCStatus()
ExcGRPCStatus ==
    /\ err # Nil
    /\ Implements(err[1], "HTTPError")
    /\ ret' = [fn |-> "GRPCStatus", nil |-> FALSE, s |-> GRPCStatus(err), n |-> 0]
    /\ UNCHANGED <<configurers, encoder, base, built, setOptions, configured, defaultOptions, defaultConfig, err, pc, handler, payload, w, result,
                   decodeErr>>

\* the error goes out of scope
ExcDrop ==
    /\ err # Nil
    /\ err' = Nil
    /\ ret' = NoRet
    /\ UNCHANGED <<configurers, encoder, base, built, setOptions, configured, defaultOptions, defaultConfig, pc, handler, payload, w, result,
                   decodeErr>>

NextException ==
    \/ ExcNew
    \/ ExcNewCustomError
    \/ ExcHTTPStatus
    \/ ExcGRPCStatus
    \/ ExcDrop

SpecException == Init /\ [][NextException]_vars


(***************************************************************************)
(* The option pipeline: a program installs default options, constructs     *)
(* errors with New and with the convenience constructors, wraps them, and  *)
(* asks a chain for a capability.                                          *)
(***************************************************************************)
\* longest chain of errors built by wrapping
MaxDepth == 3

\* the lists given to SetDefaultOptions
DefaultLists ==
    { << >>,
      << WithStatus(CodeThirdParty) >>,
      << WithCode("DEFAULT_CODE") >>,
      << WithMessage("default message") >>,
      << WithError(errorsNew("default cause")) >>,
      << WithError(Nil) >>,
      << WithStatus(CodeThirdParty), WithCode("DEFAULT_CODE") >>,
      << WithCode("DEFAULT_CODE"), WithCode("OTHER_CODE") >>,
      << WithCode("OTHER_CODE"), WithCode("DEFAULT_CODE") >>,
      << WithError(errorsNew("default cause")), WithMessage("default message"),
         WithStatus(CodeNotFound) >> }

\* the options given to New
InstanceOptions ==
    { WithStatus(CodeNotFound), WithCode("USER_NOT_FOUND"),
      WithMessage("user missing"), WithError(Nil),
      WithError(errorsNew("some error")) }

\* the option lists given to New: the short lists over InstanceOptions, a
\* single WithStatus for every status string, a single WithError for every
\* cause
InstanceLists ==
    SeqsUpTo(InstanceOptions, MaxOpts)
    \cup { << WithStatus(st) >> : st \in AllStatusInputs }
    \cup { << WithError(c) >> : c \in Causes }

\* the convenience constructors of deprecated.go
Constructors ==
    { "InvalidRequest", "ValidationFailed", "PermissionDenied", "NotFound",
      "ThirdParty", "AlreadyExists", "SoftError", "RaceCondition",
      "ResourceExhausted", "Unauthenticated", "Internal", "Unavailable",
      "DeadlineExceeded" }

\* the call name(code, message, cause)
CallConstructor(name, code, message, cause) ==
    CASE name = "InvalidRequest" -> InvalidRequest(code, message, cause)
      [] name = "ValidationFailed" -> ValidationFailed(code, message, cause)
      [] name = "PermissionDenied" -> PermissionDenied(code, message, cause)
      [] name = "NotFound" -> NotFound(code, message, cause)
      [] name = "ThirdParty" -> ThirdParty(code, message, cause)
      [] name = "AlreadyExists" -> AlreadyExists(code, message, cause)
      [] name = "SoftError" -> SoftError(code, message, cause)
      [] name = "RaceCondition" -> RaceCondition(code, message, cause)
      [] name = "ResourceExhausted" -> ResourceExhausted(code, message, cause)
      [] name = "Unauthenticated" -> Unauthenticated(code, message, cause)
      [] name = "Internal" -> Internal(code, message, cause)
      [] name = "Unavailable" -> Unavailable(code, message, cause)
      [] name = "DeadlineExceeded" -> DeadlineExceeded(code, message, cause)

\* errors that were not constructed by the caller: the predefined
\* ErrorNotFound, errors of other packages, the error a client got from
\* Response.Err(), and wrappers around them
OtherErrors ==
    { ErrorNotFound,
      errorsNew("some error"),
      errorfWrap("repo", ErrorNotFound),
      responseError(Response(404, FALSE, NilAny, ErrorInfo("E1", "m", "d"))),
      errorfWrap("call",
          responseError(Response(500, FALSE, NilAny, NilErrorInfo))),
      errorfWrap("call",
          errorfWrap("repo", New(builtinOptions, "error",
                                 << WithCode("USER_NOT_FOUND"),
                                    WithError(ErrorNotFound) >>))) }

\* exception.SetDefaultOptions(opts...)
OptSetDefaultOptions ==
    /\ pc = "idle"
    /\ \E opts \in DefaultLists :
          /\ defaultOptions' = SetDefaultOptions(defaultOptions, opts)
          /\ setOptions' = opts
    /\ UNCHANGED <<configurers, encoder, base, built, configured, defaultConfig, err, pc, handler,
                   payload, w, result, decodeErr, ret>>

\* err := exception.New(text, opts...)
OptNew ==
    /\ err = Nil
    /\ \E text \in Texts, opts \in InstanceLists :
          /\ err' = New(defaultOptions, text, opts)
          /\ built' = [NoBuilt EXCEPT !.fn = "New", !.text = text,
                                      !.opts = opts, !.defs = setOptions]
    /\ ret' = NoRet
    /\ UNCHANGED <<configurers, encoder, base, setOptions, configured, defaultOptions, defaultConfig,
                   pc, handler, payload, w, result, decodeErr>>

\* err := exception.NotFound(code, message, cause), and the like
OptConstructor ==
    /\ err = Nil
    /\ \E name \in Constructors, c \in CodeInputs, m \in MessageInputs,
          cause \in Causes :
          /\ err' = CallConstructor(name, c, m, cause)
          /\ built' = [NoBuilt EXCEPT !.fn = name, !.code = c, !.message = m,
                                      !.cause = cause]
    /\ ret' = NoRet
    /\ UNCHANGED <<configurers, encoder, base, setOptions, configured, defaultOptions, defaultConfig,
                   pc, handler, payload, w, result, decodeErr>>

\* err is an error that came from elsewhere
OptOther ==
    /\ err = Nil
    /\ \E e \in OtherErrors : err' = e
    /\ built' = [NoBuilt EXCEPT !.fn = "other"]
    /\ ret' = NoRet
    /\ UNCHANGED <<configurers, encoder, base, setOptions, configured, defaultOptions, defaultConfig,
                   pc, handler, payload, w, result, decodeErr>>

\* the caller keeps err as X and returns a classified error that has err
\* attached as its cause: with New and WithError, or with a convenience
\* constructor
OptWrap ==
    /\ err # Nil
    /\ built.fn \in { "other", "wrap" }
    /\ Len(err) < MaxDepth
    /\ base' = IF base = Nil THEN err ELSE base
    /\ \/ err' = New(defaultOptions, "wrap", << WithError(err) >>)
       \/ err' = New(defaultOptions, "wrap",
                     << WithStatus(CodeNotFound), WithError(err),
                        WithError(Nil) >>)
       \/ err' = Internal("WRAPPED", "wrapped", err)
    /\ built' = [NoBuilt EXCEPT !.fn = "wrap"]
    /\ ret' = NoRet
    /\ UNCHANGED <<configurers, encoder, setOptions, configured, defaultOptions, defaultConfig, pc,
                   handler, payload, w, result, decodeErr>>

\* errors.Is(err, X)
OptIs ==
    /\ base # Nil
    /\ ret' = [fn |-> "errors.Is", nil |-> FALSE, s |-> "", n |-> 0,
               ok |-> errorsIs(err, base), code |-> ""]
    /\ UNCHANGED <<configurers, encoder, base, built, setOptions, configured, defaultOptions,
                   defaultConfig, err, pc, handler, payload, w, result,
                   decodeErr>>

\* errors.Is(exception.ErrorNotFound, exception.ErrorNotFound)
OptIsSelf ==
    /\ err = ErrorNotFound
    /\ ret' = [fn |-> "errors.Is self", nil |-> FALSE, s |-> "", n |-> 0,
               ok |-> errorsIs(err, ErrorNotFound), code |-> ""]
    /\ UNCHANGED <<configurers, encoder, base, built, setOptions, configured, defaultOptions,
                   defaultConfig, err, pc, handler, payload, w, result,
                   decodeErr>>

\* v, ok := exception.AsErrorCode(err), then v.Code() and v.Error()
OptAsErrorCode ==
    /\ built.fn # "New"
    /\ LET a == AsErrorCode(err)
       IN ret' = [fn |-> "AsErrorCode", nil |-> a.v = Nil,
                  s |-> IF a.ok THEN ExceptionError(a.v) ELSE "", n |-> 0,
                  ok |-> a.ok,
                  code |-> IF a.ok THEN ExceptionCode(a.v) ELSE ""]
    /\ UNCHANGED <<configurers, encoder, base, built, setOptions, configured, defaultOptions,
                   defaultConfig, err, pc, handler, payload, w, result,
                   decodeErr>>

\* v, ok := httphelper.AsHTTPError(err), then v.Code() and v.Error()
OptAsHTTPError ==
    /\ built.fn # "New"
    /\ LET a == AsHTTPError(err)
       IN ret' = [fn |-> "AsHTTPError", nil |-> a.v = Nil,
                  s |-> IF a.ok THEN ExceptionError(a.v) ELSE "", n |-> 0,
                  ok |-> a.ok,
                  code |-> IF a.ok THEN ExceptionCode(a.v) ELSE ""]
    /\ UNCHANGED <<configurers, encoder, base, built, setOptions, configured, defaultOptions,
                   defaultConfig, err, pc, handler, payload, w, result,
                   decodeErr>>

\* the errors go out of scope
OptDrop ==
    /\ err # Nil
    /\ err' = Nil
    /\ base' = Nil
    /\ built' = NoBuilt
    /\ ret' = NoRet
    /\ UNCHANGED <<configurers, encoder, setOptions, configured, defaultOptions, defaultConfig, pc,
                   handler, payload, w, result, decodeErr>>

NextOptions ==
    \/ OptSetDefaultOptions
    \/ OptNew
    \/ OptConstructor
    \/ OptOther
    \/ OptWrap
    \/ OptIs
    \/ OptIsSelf
    \/ OptAsErrorCode
    \/ OptAsHTTPError
    \/ OptDrop

SpecOptions == Init /\ [][NextOptions]_vars

(***************************************************************************)
(* The two process-wide settings side by side: the envelope configuration  *)
(* and the default options of error construction.                          *)
(***************************************************************************)
NextSettings ==
    \/ CallConfigure
    \/ OptSetDefaultOptions

SpecSettings == Init /\ [][NextSettings]_vars


(***************************************************************************)
(* Configure and Error in concurrent goroutines.  Neither takes a lock     *)
(* (config.go:49-55, httphelper.go:74-105): cfg := defaultConfig and       *)
(* defaultConfig = cfg copy the struct field after field, and Error reads  *)
(* defaultConfig.defaultErrorCode, .defaultErrorMessage and                *)
(* .includeDetails in three separate expressions.  A step of a goroutine   *)
(* is one access to one field of defaultConfig; the steps of different     *)
(* goroutines interleave in every order.  The words of one string field    *)
(* are taken to be copied together.  Each goroutine makes one call.        *)
(***************************************************************************)
\* the Configure calls made by the goroutines
ConcurrentCalls ==
    { << WithDefaultErrorCode("TEST_ERROR") >>,
      << WithDefaultErrorMessage("TEST_MESSAGE") >>,
      << WithDefaultErrorCode("TEST_ERROR"),
         WithDefaultErrorMessage("TEST_MESSAGE") >>,
      << WithIncludeDetails(FALSE) >> }

\* the errors handed to Error: a foreign one and a classified one
EncodedErrors == { errorsNew("some error"), ErrorNotFound }

\* goroutine k is between the first and the last access of a Configure call
Configuring(k) == configurers[k].pc \in { "load", "store" }
\* the request goroutine is between the entry and the return of Error
Encoding == encoder.pc \notin { "idle", "done" }

\* per field the last value a list of options gives, else the value of c
LastConfigured(c, opts) ==
    LET co == LastOf(opts, "WithDefaultErrorCode")
        m == LastOf(opts, "WithDefaultErrorMessage")
        d == LastOf(opts, "WithIncludeDetails")
    IN [defaultErrorCode |->
            IF co = 0 THEN c.defaultErrorCode ELSE opts[co].str,
        defaultErrorMessage |->
            IF m = 0 THEN c.defaultErrorMessage ELSE opts[m].str,
        includeDetails |->
            IF d = 0 THEN c.includeDetails ELSE opts[d].bool]

\* go Configure(opts...): the call is entered
GoConfigure ==
    \E k \in ConfigureGoroutines :
        /\ configurers[k].pc = "idle"
        /\ \E opts \in ConcurrentCalls :
              /\ configurers' =
                    [j \in ConfigureGoroutines |->
                        IF j = k
                        THEN [NoConfigure EXCEPT
                                 !.pc = "load", !.i = 1, !.opts = opts,
                                 !.alone = \A o \in ConfigureGoroutines :
                                              ~Configuring(o)]
                        ELSE IF Configuring(j)
                        THEN [configurers[j] EXCEPT !.alone = FALSE]
                        ELSE configurers[j]]
              /\ configured' = LastConfigured(configured, opts)
        /\ encoder' = IF Encoding THEN [encoder EXCEPT !.alone = FALSE]
                      ELSE encoder
        /\ UNCHANGED <<defaultOptions, defaultConfig, err, pc, handler,
                       payload, w, result, decodeErr, ret, base, built,
                       setOptions>>

\* cfg := defaultConfig, one field; after the last field the loop
\* for _, opt := range opts { opt(&cfg) } runs on the local copy
LoadField ==
    \E k \in ConfigureGoroutines :
        /\ configurers[k].pc = "load"
        /\ LET c == configurers[k]
               f == Fields[c.i]
               copy == [c.cfg EXCEPT ![f] = defaultConfig[f]]
           IN configurers' =
                 [configurers EXCEPT ![k] =
                    IF c.i < Len(Fields)
                    THEN [c EXCEPT !.cfg = copy, !.i = c.i + 1]
                    ELSE [c EXCEPT !.loaded = copy,
                                   !.cfg = Configure(copy, c.opts),
                                   !.pc = "store", !.i = 1]]
        /\ UNCHANGED <<encoder, defaultOptions, defaultConfig, err, pc,
                       handler, payload, w, result, decodeErr, ret, base,
                       built, setOptions, configured>>

\* defaultConfig = cfg, one field; after the last field Configure returns
StoreField ==
    \E k \in ConfigureGoroutines :
        /\ configurers[k].pc = "store"
        /\ LET c == configurers[k]
               f == Fields[c.i]
           IN /\ defaultConfig' = [defaultConfig EXCEPT ![f] = c.cfg[f]]
              /\ configurers' =
                    [configurers EXCEPT ![k] =
                       IF c.i < Len(Fields) THEN [c EXCEPT !.i = c.i + 1]
                       ELSE [c EXCEPT !.pc = "done"]]
        /\ UNCHANGED <<encoder, defaultOptions, err, pc, handler, payload, w,
                       result, decodeErr, ret, base, built, setOptions,
                       configured>>

\* a handler calls Error(w, e): AsHTTPError(e) decides which fields of
\* defaultConfig the call is going to read
GoError ==
    /\ encoder.pc = "idle"
    /\ \E e \in EncodedErrors :
          encoder' =
             [NoEncoder EXCEPT
                 !.pc = IF AsHTTPError(e).ok THEN "details" ELSE "code",
                 !.e = e,
                 !.before = defaultConfig,
                 !.alone = \A k \in ConfigureGoroutines : ~Configuring(k)]
    /\ UNCHANGED <<configurers, defaultOptions, defaultConfig, err, pc,
                   handler, payload, w, result, decodeErr, ret, base, built,
                   setOptions, configured>>

\* Code: defaultConfig.defaultErrorCode
ReadDefaultCode ==
    /\ encoder.pc = "code"
    /\ encoder' = [encoder EXCEPT
                      !.cfg.defaultErrorCode = defaultConfig.defaultErrorCode,
                      !.pc = "message"]
    /\ UNCHANGED <<configurers, defaultOptions, defaultConfig, err, pc,
                   handler, payload, w, result, decodeErr, ret, base, built,
                   setOptions, configured>>

\* Message: defaultConfig.defaultErrorMessage
ReadDefaultMessage ==
    /\ encoder.pc = "message"
    /\ encoder' = [encoder EXCEPT
                      !.cfg.defaultErrorMessage =
                          defaultConfig.defaultErrorMessage,
                      !.pc = "details"]
    /\ UNCHANGED <<configurers, defaultOptions, defaultConfig, err, pc,
                   handler, payload, w, result, decodeErr, ret, base, built,
                   setOptions, configured>>

\* if defaultConfig.includeDetails
ReadIncludeDetails ==
    /\ encoder.pc = "details"
    /\ encoder' = [encoder EXCEPT
                      !.cfg.includeDetails = defaultConfig.includeDetails,
                      !.pc = "encode"]
    /\ UNCHANGED <<configurers, defaultOptions, defaultConfig, err, pc,
                   handler, payload, w, result, decodeErr, ret, base, built,
                   setOptions, configured>>

\* w.WriteHeader(httpStatus) and the encoding of the envelope, made of the
\* values the call has read; Error returns
EncodeEnvelope ==
    /\ encoder.pc = "encode"
    /\ w' = Error(encoder.cfg, encoder.e)
    /\ err' = encoder.e
    /\ encoder' = [encoder EXCEPT !.pc = "done"]
    /\ UNCHANGED <<configurers, defaultOptions, defaultConfig, pc, handler,
                   payload, result, decodeErr, ret, base, built, setOptions,
                   configured>>

NextConcurrent ==
    \/ GoConfigure
    \/ LoadField
    \/ StoreField
    \/ GoError
    \/ ReadDefaultCode
    \/ ReadDefaultMessage
    \/ ReadIncludeDetails
    \/ EncodeEnvelope

SpecConcurrent == Init /\ [][NextConcurrent]_vars


(***************************************************************************)
(* Properties.                                                             *)
(***************************************************************************)
\* the rows of the status table: status class, HTTP code, gRPC-style name
TableRows ==
    { << "INTERNAL", 500, "INTERNAL" >>,
      << "INVALID_REQUEST", 400, "INVALID_ARGUMENT" >>,
      << "VALIDATION_FAILED", 422, "INVALID_ARGUMENT" >>,
      << "NOT_FOUND", 404, "NOT_FOUND" >>,
      << "ALREADY_EXISTS", 409, "ALREADY_EXISTS" >>,
      << "RACE_CONDITION", 409, "ALREADY_EXISTS" >>,
      << "UNAUTHENTICATED", 401, "UNAUTHENTICATED" >>,
      << "PERMISSION_DENIED", 403, "PERMISSION_DENIED" >>,
      << "RESOURCE_EXHAUSTED", 429, "RESOURCE_EXHAUSTED" >>,
      << "UNAVAILABLE", 503, "UNAVAILABLE" >>,
      << "DEADLINE_EXCEEDED", 504, "DEADLINE_EXCEEDED" >>,
      << "SOFT_ERROR", 200, "OK" >> }

\* the row of a status string: its table row, or 500/UNKNOWN without one
TableRow(st) ==
    IF \E r \in TableRows : r[1] = st
    THEN CHOOSE r \in TableRows : r[1] = st
    ELSE << st, 500, "UNKNOWN" >>

\* the error in hand is itself a classified error
Classified == err # Nil /\ err[1].kind = "exception"
\* no error of the chain is a classified error
Foreign == err # Nil /\ \A i \in 1..Len(err) : err[i].kind # "exception"

\* the string a member of the wire body holds ("" when it is absent)
WireStr(j) == IF j.t = "str" THEN j.s ELSE ""

\* C1: HTTPStatus() and GRPCStatus() of a classified error return the
\* values of the row of its status class in the fixed table, and 500 and
\* UNKNOWN for every status string without a row (THIRD_PARTY, the empty
\* string, a string that is no class).
C1_StatusTable ==
    /\ ret.fn = "HTTPStatus" => ret.n = TableRow(err[1].status)[2]
    /\ ret.fn = "GRPCStatus" => ret.s = TableRow(err[1].status)[3]

\* C1 witness: a SOFT_ERROR error has answered HTTPStatus() with 200
C1_Witness ==
    /\ Classified
    /\ err[1].status = "SOFT_ERROR"
    /\ ret.fn = "HTTPStatus"
    /\ ret.n = 200

\* C2: the envelope Error writes for a classified error has the HTTP status
\* of the table row of the error's status class, and the error's own code
\* and message in its error block.
C2_ClassifiedEnvelope ==
    (pc # "idle" /\ handler = "Error" /\ Classified) =>
        /\ w.body.kind = "object"
        /\ w.body.status = JNum(TableRow(err[1].status)[2])
        /\ w.body.error.t = "obj"
        /\ w.body.error.code = JStr(err[1].code)
        /\ w.body.error.message = JStr(err[1].message)

\* C2 witness: NOT_FOUND with code USER_NOT_FOUND and message 'user
\* missing', built by New, has been written with status 404
C2_Witness ==
    /\ pc = "written"
    /\ handler = "Error"
    /\ err = << exception("error", "NOT_FOUND", "USER_NOT_FOUND", "user missing") >>
    /\ w.body.status = JNum(404)
    /\ w.body.error.code = JStr("USER_NOT_FOUND")
    /\ w.body.error.message = JStr("user missing")

\* C3: the envelope Error writes for an error with no classified error in
\* its cause chain has status 500, the configured default code and message,
\* and the error's text as detail when detail inclusion is enabled.
C3_ForeignEnvelope ==
    (pc # "idle" /\ handler = "Error" /\ Foreign) =>
        /\ w.code = 500
        /\ w.body.kind = "object"
        /\ w.body.status = JNum(500)
        /\ w.body.error.t = "obj"
        /\ w.body.error.code = JStr(defaultConfig.defaultErrorCode)
        /\ w.body.error.message = JStr(defaultConfig.defaultErrorMessage)
        /\ defaultConfig.includeDetails =>
              WireStr(w.body.error.detail) = err[1].s

\* C3 witness: after Configure has set both defaults, a foreign error has
\* been written with them and with its text as detail
C3_Witness ==
    /\ pc = "written"
    /\ handler = "Error"
    /\ err = errorsNew("some error")
    /\ defaultConfig.defaultErrorCode = "TEST_ERROR"
    /\ defaultConfig.defaultErrorMessage = "TEST_MESSAGE"
    /\ w.body.error.code = JStr("TEST_ERROR")
    /\ w.body.error.detail = JStr("some error")


\* the error block of the wire body, as its members read
BlockPresent == w.body.kind = "object" /\ w.body.error.t = "obj"
WireCode == WireStr(w.body.error.code)
WireMessage == WireStr(w.body.error.message)
WireDetail == WireStr(w.body.error.detail)
\* the wire body carries an error block with a code or a detail
BlockUsable == BlockPresent /\ (WireCode # "" \/ WireDetail # "")

\* what the client has obtained so far is a non-nil error with code c
ExposesCode(c) ==
    /\ ret.fn = "Err" => (~ret.nil /\ result.ErrorInfo.Code = c)
    /\ ret.fn = "Code" => ret.s = c
\* ... with message m
ExposesMessage(m) ==
    /\ ret.fn = "Err" => (~ret.nil /\ result.ErrorInfo.Message = m)
    /\ ret.fn = "Message" => ret.s = m
\* ... with detail d
ExposesDetail(d) ==
    /\ ret.fn = "Err" => (~ret.nil /\ result.ErrorInfo.Detail = d)
    /\ ret.fn = "Error" => ret.s = d
Exposes(c, m, d) == ExposesCode(c) /\ ExposesMessage(m) /\ ExposesDetail(d)

\* a classified error was encoded with detail inclusion enabled and the
\* client has decoded the body
RoundTripCase ==
    /\ pc = "decoded"
    /\ handler = "Error"
    /\ Classified
    /\ defaultConfig.includeDetails

\* C4 as stated: with detail inclusion enabled, every classified error e
\* comes back from encode, decode and Err() with Code() = e.Code(),
\* Message() = e.Message() and Error() = e.Error().
C4_RoundTripEvery ==
    RoundTripCase => Exposes(err[1].code, err[1].message, err[1].s)

\* C4 amended: the round trip is exact for every classified error whose
\* Code() or Error() is not empty; an error with both empty comes back as
\* the UNKNOWN_ERROR sentinel.
C4_RoundTrip ==
    RoundTripCase =>
        IF err[1].code # "" \/ err[1].s # ""
        THEN Exposes(err[1].code, err[1].message, err[1].s)
        ELSE Exposes(UNKNOWN_ERROR, "", UNKNOWN_DETAIL)

\* C4 witness: an error with an empty code, a message and a cause has come
\* back with its rendered text as detail
C4_Witness ==
    /\ RoundTripCase
    /\ err[1].code = ""
    /\ err[1].message = "user missing"
    /\ err[1].s = "error: some error"
    /\ ret.fn = "Error"
    /\ ret.s = "error: some error"

\* an error was encoded with detail inclusion disabled
NoDetailCase ==
    /\ pc # "idle"
    /\ handler = "Error"
    /\ ~defaultConfig.includeDetails

\* C5 as stated: with detail inclusion disabled the wire error block has no
\* detail member, and the client recovers the code and the message of the
\* block, whatever the code (the empty string included).
C5_NoDetailEveryCode ==
    NoDetailCase =>
        /\ BlockPresent
        /\ w.body.error.detail.t = "absent"
        /\ pc = "decoded" => (ExposesCode(WireCode) /\ ExposesMessage(WireMessage))

\* C5 amended: with detail inclusion disabled the wire error block has no
\* detail member; the client recovers the code and the message of the block
\* when the code is not empty, and the UNKNOWN_ERROR sentinel when it is.
C5_NoDetail ==
    NoDetailCase =>
        /\ BlockPresent
        /\ w.body.error.detail.t = "absent"
        /\ pc = "decoded" =>
              IF WireCode # ""
              THEN ExposesCode(WireCode) /\ ExposesMessage(WireMessage)
              ELSE Exposes(UNKNOWN_ERROR, "", UNKNOWN_DETAIL)

\* C5 witness: a classified error with a rendered text was encoded without
\* detail and the client has read its code
C5_Witness ==
    /\ NoDetailCase
    /\ pc = "decoded"
    /\ Classified
    /\ err[1].s = "error"
    /\ err[1].code = "USER_NOT_FOUND"
    /\ w.body.error.detail.t = "absent"
    /\ ret.fn = "Code"
    /\ ret.s = "USER_NOT_FOUND"

\* C6: whenever json.Unmarshal of the body into the Response fails, Err()
\* is not nil and Code() is UNKNOWN_ERROR.
C6_DecodeFailureIsSentinel ==
    (pc = "decoded" /\ decodeErr) =>
        /\ ret.fn = "Err" => ~ret.nil
        /\ ret.fn = "Code" => ret.s = UNKNOWN_ERROR

\* C7: Err() is nil exactly when success is true, and a success envelope
\* has empty Code(), Message() and Error(), whatever its error block holds.
C7_ErrNilIffSuccess ==
    pc = "decoded" =>
        /\ ret.fn = "Err" => (ret.nil <=> result.Success)
        /\ (result.Success /\ ret.fn \in { "Code", "Message", "Error" }) =>
              ret.s = ""

\* C7 witness: a success envelope that carries an error block with a code
\* has answered Err() with nil
C7_Witness ==
    /\ pc = "decoded"
    /\ result.Success
    /\ ~result.ErrorInfo.nil
    /\ result.ErrorInfo.Code = "E1"
    /\ ret.fn = "Err"
    /\ ret.nil

\* C8: for a body that parsed and has success false, the client is given
\* the code, message and detail of the error block when the block is
\* present with a code or a detail, and otherwise the sentinel: code
\* UNKNOWN_ERROR and the fixed detail text.
C8_FailureNormalization ==
    (pc = "decoded" /\ ~decodeErr /\ ~result.Success) =>
        IF BlockUsable
        THEN Exposes(WireCode, WireMessage, WireDetail)
        ELSE ExposesCode(UNKNOWN_ERROR) /\ ExposesDetail(UNKNOWN_DETAIL)

\* C8 witness: a body with none of the envelope's members, such as
\* {"foo":"bar"}, has answered Code() with UNKNOWN_ERROR
C8_Witness ==
    /\ pc = "decoded"
    /\ handler = "raw"
    /\ w.body = JObject(JAbsentNum, JAbsentBool, JAbsentAny, JAbsentError)
    /\ ~decodeErr
    /\ ret.fn = "Code"
    /\ ret.s = UNKNOWN_ERROR

\* C9: whenever the envelope is normalized to the sentinel, the error is
\* not nil, its Code is UNKNOWN_ERROR and its Message is the fixed
\* 'Request failed without error details...' text.
C9_SentinelMessage ==
    (pc = "decoded" /\ ~result.Success /\ ~BlockUsable) =>
        /\ ExposesCode(UNKNOWN_ERROR)
        /\ ExposesMessage(UNKNOWN_DETAIL)

\* C10: OK writes success true, status 200, the given payload and no error
\* block; Error writes success false, an error block, a null payload and a
\* status member equal to the status line it wrote.
C10_EncoderEnvelopes ==
    /\ (pc # "idle" /\ handler = "OK") =>
          /\ w.code = 200
          /\ w.body.kind = "object"
          /\ w.body.status = JNum(200)
          /\ w.body.success = JBool(TRUE)
          /\ w.body.data = payload
          /\ w.body.error.t = "absent"
    /\ (pc # "idle" /\ handler = "Error") =>
          /\ w.body.kind = "object"
          /\ w.body.status = JNum(w.code)
          /\ w.body.success = JBool(FALSE)
          /\ w.body.data.t = "null"
          /\ w.body.error.t = "obj"

\* C10 witness: a SOFT_ERROR error has been written with status line 200,
\* status member 200 and success false
C10_Witness ==
    /\ pc = "written"
    /\ handler = "Error"
    /\ Classified
    /\ err[1].status = "SOFT_ERROR"
    /\ w.code = 200
    /\ w.body.status = JNum(200)
    /\ w.body.success = JBool(FALSE)

\* the client has called ReadData on the decoded Response
ReadDataCase == pc = "decoded" /\ ret.fn = "ReadData"

\* C11: ReadData on an envelope whose Err() is not nil (success false)
\* returns the zero value of T and that error, never a nil error; on a
\* success envelope whose payload is an object with the members Foo and Bar
\* it returns those two values and a nil error, also when the envelope
\* carries an error block.
C11_ReadDataErrorFirst ==
    ReadDataCase =>
        /\ ~result.Success =>
              /\ ret.data = ZeroData
              /\ ~ret.nil
              /\ ret.s = "r.Err()"
              /\ ret.code =
                    IF \/ result.ErrorInfo.nil
                       \/ (result.ErrorInfo.Code = "" /\ result.ErrorInfo.Detail = "")
                    THEN UNKNOWN_ERROR
                    ELSE result.ErrorInfo.Code
        /\ (result.Success /\ result.Data.t = "obj") =>
              /\ ret.nil
              /\ ret.data = [Foo |-> result.Data.Foo, Bar |-> result.Data.Bar]

\* C11 witness: a failure envelope that carries both an error block and a
\* payload object has given ReadData's caller the zero value and the error
C11_Witness ==
    /\ ReadDataCase
    /\ ~result.Success
    /\ result.Data = DataObj("foo", "bar")
    /\ result.ErrorInfo.Code = "E1"
    /\ ret.data = ZeroData
    /\ ret.s = "r.Err()"
    /\ ret.code = "E1"

\* the payload of the decoded Response cannot be parsed into Data
Unparsable == result.Data.t \in { "num", "objBadBar", "strText" }

\* C12 as stated: on a success envelope ReadData fails with the missing
\* payload error when the payload is null and with a parse error when the
\* payload cannot be parsed into T; neither is the error of Err(), and the
\* value returned is the zero value of T in both cases.
C12_ReadDataZeroOnFailure ==
    (ReadDataCase /\ result.Success) =>
        /\ result.Data.t = "null" =>
              ret.s = "response data is nil" /\ ret.data = ZeroData
        /\ Unparsable =>
              ret.s = "failed to unmarshal response data" /\ ret.data = ZeroData

\* C12 amended: as stated, but the value returned with a parse error is
\* the zero value of T only where no member was decoded: the members that
\* did parse are set in it.
C12_ReadDataFailures ==
    (ReadDataCase /\ result.Success) =>
        /\ result.Data.t = "null" =>
              ret.s = "response data is nil" /\ ret.data = ZeroData
        /\ Unparsable =>
              /\ ret.s = "failed to unmarshal response data"
              /\ ret.data =
                    IF result.Data.t = "objBadBar"
                    THEN [Foo |-> result.Data.Foo, Bar |-> ""]
                    ELSE ZeroData

\* C12 witness: a success envelope whose payload has a string Foo and a
\* number Bar has given ReadData's caller a parse error and a value with
\* Foo set
C12_Witness ==
    /\ ReadDataCase
    /\ result.Success
    /\ result.Data = ObjBadBar("foo")
    /\ ret.s = "failed to unmarshal response data"
    /\ ret.data = [Foo |-> "foo", Bar |-> ""]

\* the string the last option of the list made by name holds ("" without one)
LastStr(opts, name) ==
    LET i == LastOf(opts, name) IN IF i = 0 THEN "" ELSE opts[i].str

\* the cause of the last WithError of the list given a cause that is not
\* nil (Nil without one)
LastCause(opts) ==
    LET I == { i \in 1..Len(opts) :
                 opts[i].opt = "WithError" /\ opts[i].cause # Nil }
    IN IF I = {} THEN Nil
       ELSE opts[CHOOSE i \in I : \A j \in I : j <= i].cause

\* err was constructed by New(text, WithError(c)) and nothing else
WithErrorCase ==
    /\ built.fn = "New"
    /\ Len(built.opts) = 1
    /\ built.opts[1].opt = "WithError"

C14_InstanceWinsEveryField ==
    built.fn = "New" =>
        /\ LastOf(built.opts, "WithStatus") # 0 =>
              err[1].status = LastStr(built.opts, "WithStatus")
        /\ LastOf(built.opts, "WithCode") # 0 =>
              err[1].code = LastStr(built.opts, "WithCode")
        /\ LastOf(built.opts, "WithMessage") # 0 =>
              err[1].message = LastStr(built.opts, "WithMessage")
        /\ LastOf(built.opts, "WithError") # 0 =>
              \E i \in 1..Len(built.opts) :
                  /\ built.opts[i].opt = "WithError"
                  /\ Unwrap(err) = built.opts[i].cause

\* C14 amended: as stated for status, code and message; for the cause,
\* the error holds the cause of the last instance WithError whose cause is
\* not nil, and an instance WithError(nil) leaves the cause set before it.
C14_InstanceWins ==
    built.fn = "New" =>
        /\ LastOf(built.opts, "WithStatus") # 0 =>
              err[1].status = LastStr(built.opts, "WithStatus")
        /\ LastOf(built.opts, "WithCode") # 0 =>
              err[1].code = LastStr(built.opts, "WithCode")
        /\ LastOf(built.opts, "WithMessage") # 0 =>
              err[1].message = LastStr(built.opts, "WithMessage")
        /\ LastCause(built.opts) # Nil => Unwrap(err) = LastCause(built.opts)
        /\ LastCause(built.opts) = Nil => Unwrap(err) = LastCause(built.defs)

\* C14 witness: under default options that set cause, message and status,
\* New with a message and a cause of its own holds its own two values
C14_Witness ==
    /\ built.fn = "New"
    /\ built.defs = << WithError(errorsNew("default cause")),
                       WithMessage("default message"),
                       WithStatus(CodeNotFound) >>
    /\ built.opts = << WithError(errorsNew("some error")),
                       WithMessage("user missing") >>
    /\ err[1].message = "user missing"
    /\ Unwrap(err) = errorsNew("some error")

\* C15: under the built-in default options, New with a WithStatus(S) for a
\* status class S and no WithCode has Code() equal to S.
C15_CodeDefaultsToStatus ==
    ( /\ built.fn = "New"
      /\ built.defs = builtinOptions
      /\ LastOf(built.opts, "WithCode") = 0
      /\ LastOf(built.opts, "WithStatus") # 0
      /\ LastStr(built.opts, "WithStatus") \in StatusClasses ) =>
        err[1].code = LastStr(built.opts, "WithStatus")

\* the status class each convenience constructor pins
PinnedClass(name) ==
    CASE name = "InvalidRequest" -> "INVALID_REQUEST"
      [] name = "ValidationFailed" -> "VALIDATION_FAILED"
      [] name = "PermissionDenied" -> "PERMISSION_DENIED"
      [] name = "NotFound" -> "NOT_FOUND"
      [] name = "ThirdParty" -> "THIRD_PARTY"
      [] name = "AlreadyExists" -> "ALREADY_EXISTS"
      [] name = "SoftError" -> "SOFT_ERROR"
      [] name = "RaceCondition" -> "RACE_CONDITION"
      [] name = "ResourceExhausted" -> "RESOURCE_EXHAUSTED"
      [] name = "Unauthenticated" -> "UNAUTHENTICATED"
      [] name = "Internal" -> "INTERNAL"
      [] name = "Unavailable" -> "UNAVAILABLE"
      [] name = "DeadlineExceeded" -> "DEADLINE_EXCEEDED"

\* C16: an error returned by a convenience constructor has the
\* constructor's status class and the caller's code and message, and its
\* cause is never nil: the given cause, or without one an error whose text
\* is the status class.
C16_ConstructorCause ==
    built.fn \in Constructors =>
        /\ err[1].status = PinnedClass(built.fn)
        /\ err[1].code = built.code
        /\ err[1].message = built.message
        /\ Unwrap(err) # Nil
        /\ built.cause # Nil => Unwrap(err) = built.cause
        /\ built.cause = Nil => Unwrap(err) = errorsNew(PinnedClass(built.fn))

\* the position in err of the first error, from the outermost, that is of
\* one of the kinds (0 without one)
FirstOfKinds(kinds) ==
    LET I == { i \in 1..Len(err) : err[i].kind \in kinds }
    IN IF I = {} THEN 0 ELSE CHOOSE i \in I : \A j \in I : i <= j

\* the extraction answered with the first error of one of the kinds, or
\* with (nil, false) when err has none
Extracted(kinds) ==
    LET k == FirstOfKinds(kinds)
    IN IF k = 0 THEN ~ret.ok /\ ret.nil
       ELSE /\ ret.ok
            /\ ~ret.nil
            /\ ret.code = err[k].code
            /\ ret.s = err[k].s

C18_WrapIs ==
    /\ ret.fn = "errors.Is" =>
          /\ ret.ok
          /\ Len(err) > Len(base)
          /\ SubSeq(err, Len(err) - Len(base) + 1, Len(err)) = base
    /\ ret.fn = "errors.Is self" => ret.ok

\* C18 witness: ErrorNotFound wrapped twice is still caused by it
C18_Witness ==
    /\ base = ErrorNotFound
    /\ Len(err) = 3
    /\ ret.fn = "errors.Is"
    /\ ret.ok

\* C19: an error constructed by New has had applied to it the options of
\* the most recent SetDefaultOptions call (the built-in list before any
\* call), in order, then its instance options, and nothing else; after
\* SetDefaultOptions() with no options New(text) has an empty status and
\* code and maps to 500 and UNKNOWN; an error constructed before a call
\* stays as it was.
C19_DefaultsReplaced ==
    built.fn = "New" =>
        LET all == built.defs \o built.opts
            c == LastCause(all)
        IN /\ err[1].status = LastStr(all, "WithStatus")
           /\ err[1].code = LastStr(all, "WithCode")
           /\ err[1].message = LastStr(all, "WithMessage")
           /\ Unwrap(err) = c
           /\ err[1].s = IF c = Nil THEN built.text
                         ELSE built.text \o ": " \o c[1].s
           /\ all = << >> =>
                 /\ err[1].status = "" /\ err[1].code = ""
                 /\ HTTPStatus(err) = 500
                 /\ GRPCStatus(err) = "UNKNOWN"

\* C19 witness: New("error") after SetDefaultOptions() has no status and
\* no code, also after a later SetDefaultOptions call
C19_Witness ==
    /\ built.fn = "New"
    /\ built.defs = << >>
    /\ built.opts = << >>
    /\ setOptions = << WithStatus(CodeThirdParty) >>
    /\ err = << exception("error", "", "", "") >>

\* C20: each field of the configuration holds the value of the last
\* Configure call that set it, or its initial value; Configure does not
\* touch the default options of error construction and SetDefaultOptions
\* does not touch the configuration.
C20_ConfigureCumulative ==
    /\ defaultConfig = configured
    /\ defaultOptions = setOptions

\* C20 witness: the code and the detail switch have been configured, the
\* message never, and the default options have been replaced
C20_Witness ==
    /\ defaultConfig.defaultErrorCode = "TEST_ERROR"
    /\ defaultConfig.defaultErrorMessage = INTERNAL_SERVER_MESSAGE
    /\ ~defaultConfig.includeDetails
    /\ defaultOptions = << WithCode("DEFAULT_CODE") >>

(***************************************************************************)
(* Propagation of a classification through the cause chain.                *)
(***************************************************************************)
\* the position of the innermost classified error of the chain e: the one
\* that was produced first and is carried by the others; 0 when none
InnermostClassified(e) ==
    LET I == { i \in 1..Len(e) : e[i].kind = "exception" }
    IN IF I = {} THEN 0 ELSE CHOOSE i \in I : \A j \in I : j <= i

\* the served error carries a classified error inside another error
CarriedCase ==
    /\ pc # "idle"
    /\ handler = "Error"
    /\ InnermostClassified(err) > 1

\* C21: when a classified error is carried in the cause chain of another
\* error, also of one made by New(text, WithError(inner)) with no status
\* and no code option, the envelope has the status, the code and the
\* message of the carried error as it was produced, and the three come
\* from one error of the chain.
C21_NoReclassification ==
    CarriedCase =>
        LET inner == err[InnermostClassified(err)]
        IN /\ w.code = TableRow(inner.status)[2]
           /\ WireCode = inner.code
           /\ WireMessage = inner.message
           /\ \E i \in 1..Len(err) :
                 /\ err[i].kind = "exception"
                 /\ w.code = TableRow(err[i].status)[2]
                 /\ WireCode = err[i].code
                 /\ WireMessage = err[i].message

\* the part of C21 that the encoder keeps: the status, the code and the
\* message of an envelope come from one classified error of the chain
C21_OneSource ==
    (pc # "idle" /\ handler = "Error" /\ InnermostClassified(err) > 0) =>
        \E i \in 1..Len(err) :
            /\ err[i].kind = "exception"
            /\ w.code = TableRow(err[i].status)[2]
            /\ WireCode = err[i].code
            /\ WireMessage = err[i].message

\* C22: the Error() text of an error built by a convenience constructor
\* (all of them go through NewCustomError) is the text of its cause, so the
\* envelope encoded for it with details included has that text, which is
\* not empty, as its detail, and the client reads back from the envelope a
\* detail equal to the server's Error().
C22_ErrorIsCauseText ==
    built.fn \in Constructors =>
        LET envelope == Error([defaultConfig EXCEPT !.includeDetails = TRUE],
                              err)
            read == Unmarshal(envelope.body, ZeroResponse).r
        IN /\ ExceptionError(err) = ExceptionError(Unwrap(err))
           /\ envelope.body.error.detail = JStr(ExceptionError(Unwrap(err)))
           /\ ExceptionError(Unwrap(err)) # ""
           /\ ResponseError(read) = ExceptionError(err)

\* C23: between two method calls on a decoded Response the answers of
\* Code(), Message(), Error() and Err() do not change, and each call
\* returns that answer; the only field a call writes is the error block of
\* a failure envelope, written by Err() with the block getError yields;
\* success, status and payload never change, a success envelope does not
\* change at all, and ReadData leaves the caller's Response as it was.
C23_AccessorsStable ==
    [][ (pc = "decoded" /\ pc' = "decoded") =>
          /\ Code(result') = Code(result)
          /\ Message(result') = Message(result)
          /\ ResponseError(result') = ResponseError(result)
          /\ Err(result').nil = Err(result).nil
          /\ (ret' # ret /\ ret'.fn = "Code") => ret'.s = Code(result)
          /\ (ret' # ret /\ ret'.fn = "Message") => ret'.s = Message(result)
          /\ (ret' # ret /\ ret'.fn = "Error") =>
                ret'.s = ResponseError(result)
          /\ result'.Success = result.Success
          /\ result'.Status = result.Status
          /\ result'.Data = result.Data
          /\ result.Success => result' = result
          /\ result' # result =>
                /\ ret'.fn = "Err"
                /\ result'.ErrorInfo = getError(result)
          /\ ret'.fn = "ReadData" => result' = result
      ]_vars

\* C23 witness: the envelope came without an error block, Err() has stored
\* the sentinel in the Response, and Message() was called after it
C23_Witness ==
    /\ pc = "decoded"
    /\ w.body.kind = "object"
    /\ ~BlockPresent
    /\ ~result.Success
    /\ result.ErrorInfo = ErrorInfo(UNKNOWN_ERROR, "", UNKNOWN_DETAIL)
    /\ ret.fn = "Message"
    /\ ret.s = ""

(***************************************************************************)
(* Concurrent reconfiguration.                                             *)
(***************************************************************************)
\* the configurations that are the value of defaultConfig before or after
\* a Configure call: the initial one, and what each call has copied from
\* defaultConfig and what it stores back
HeldConfigs ==
    { initialConfig }
    \cup { configurers[k].loaded :
             k \in { j \in ConfigureGoroutines :
                       configurers[j].pc \in { "store", "done" } } }
    \cup { configurers[k].cfg :
             k \in { j \in ConfigureGoroutines :
                       configurers[j].pc \in { "store", "done" } } }

\* the envelope written for the foreign error of the encoder has the
\* default code, the default message and the detail decision of c
EnvelopeReflects(c) ==
    /\ WireCode = c.defaultErrorCode
    /\ WireMessage = c.defaultErrorMessage
    /\ WireDetail = IF c.includeDetails THEN ExceptionError(encoder.e) ELSE ""

\* Error has returned after encoding a foreign error
EncodedForeign ==
    /\ encoder.pc = "done"
    /\ ~AsHTTPError(encoder.e).ok

\* C24 as stated: the default code, the default message and the detail
\* decision of every envelope encoded for a foreign error, also while
\* Configure runs in another goroutine, are those of one configuration: one
\* that defaultConfig held before or after a Configure call.
C24_OneConfigurationAlways ==
    EncodedForeign => \E c \in HeldConfigs : EnvelopeReflects(c)

\* C24: an envelope encoded by a call of Error during which no Configure
\* call ran has the default code, the default message and the detail
\* decision of one configuration, the value of defaultConfig during the
\* call; for a classified error the detail decision is that of this
\* configuration.
C24_OneConfiguration ==
    (encoder.pc = "done" /\ encoder.alone) =>
        IF AsHTTPError(encoder.e).ok
        THEN (WireDetail # "") = encoder.before.includeDetails
        ELSE EnvelopeReflects(encoder.before)

\* C24 witness: Error ran alone after a Configure call had set the default
\* code and message, and wrote an envelope with both
C24_Witness ==
    /\ EncodedForeign
    /\ encoder.alone
    /\ encoder.before.defaultErrorCode = "TEST_ERROR"
    /\ encoder.before.defaultErrorMessage = "TEST_MESSAGE"
    /\ WireCode = "TEST_ERROR"
    /\ WireMessage = "TEST_MESSAGE"

\* every goroutine that was started to call Configure has returned from it
ConfigureCompleted ==
    \A k \in ConfigureGoroutines : configurers[k].pc \in { "idle", "done" }

\* the configurations that running the completed Configure calls one after
\* another, in some order, leaves behind
SerialResults ==
    LET D == { k \in ConfigureGoroutines : configurers[k].pc = "done" }
    IN IF D = {} THEN { initialConfig }
       ELSE IF Cardinality(D) = 1
       THEN { Configure(initialConfig, configurers[k].opts) : k \in D }
       ELSE UNION { { Configure(Configure(initialConfig,
                                          configurers[k].opts),
                                configurers[j].opts) : j \in D \ { k } } :
                    k \in D }

\* C25 as stated: after Configure calls that ran concurrently have
\* completed, the configuration is the result of running the same calls
\* one after another in some order, so no call's update is lost.
C25_NoLostUpdateAlways ==
    ConfigureCompleted => defaultConfig \in SerialResults

\* C25: after Configure calls of which no two ran at the same time, every
\* field of the configuration has the value of the last call that set it,
\* or its initial value: the calls have taken effect one after another in
\* the order they were made, and two calls that set different fields have
\* both taken effect.
C25_NoLostUpdate ==
    (ConfigureCompleted /\ \A k \in ConfigureGoroutines : configurers[k].alone)
        => /\ defaultConfig = configured
           /\ defaultConfig \in SerialResults

\* C25 witness: one call set the default code, a later call that did not
\* overlap it set the default message, and both values are in force
C25_Witness ==
    /\ configurers["c1"].pc = "done"
    /\ configurers["c2"].pc = "done"
    /\ configurers["c1"].alone
    /\ configurers["c2"].alone
    /\ configurers["c1"].opts = << WithDefaultErrorCode("TEST_ERROR") >>
    /\ configurers["c2"].opts = << WithDefaultErrorMessage("TEST_MESSAGE") >>
    /\ defaultConfig.defaultErrorCode = "TEST_ERROR"
    /\ defaultConfig.defaultErrorMessage = "TEST_MESSAGE"


====
